---- MODULE Spec2Model ----
(***************************************************************************)
(* Razix build light: signal derivation (health score, colours) and the    *)
(* natural-language command router of razix_build_light.py, the WiZ device  *)
(* sink of wiz_control.py and the intent wrapper of run_razix_intent.py.    *)
(*                                                                         *)
(* Python strings that are searched, trimmed or lower-cased are sequences   *)
(* of one-character strings, so that `x in text`, strip(), lower() and the  *)
(* rgb regular expression are computed character by character.  Strings     *)
(* that are only compared (status, conclusion, logins, dates) are TLA+      *)
(* strings.                                                                *)
(***************************************************************************)
EXTENDS Integers, Sequences, FiniteSets, TLC

\* ------------------------------------------------------------------ bounds
\* A command text is at most MaxFrags fragments joined by single spaces.
MaxFrags == 2
\* A workflow-run list given to the aggregator alone holds at most MaxRuns runs.
MaxRuns == 3
\* color_for_health is exercised on scores -ScoreSlack .. 100 + ScoreSlack.
ScoreSlack == 30

\* ------------------------------------------------------------ Python values
None == "<None>"          \* Python None (JSON null)
Falsy(x) == x \in {None, ""}

Min(S) == CHOOSE x \in S : \A y \in S : x <= y
Max(S) == CHOOSE x \in S : \A y \in S : x >= y
min(a, b) == IF a <= b THEN a ELSE b
max(a, b) == IF a >= b THEN a ELSE b

\* ------------------------------------------------------------- text literals
S_last_build == <<"l", "a", "s", "t", " ", "b", "u", "i", "l", "d">>
S_build_status == <<"b", "u", "i", "l", "d", " ", "s", "t", "a", "t", "u", "s">>
S_sync == <<"s", "y", "n", "c">>
S_build == <<"b", "u", "i", "l", "d">>
S_set == <<"s", "e", "t">>
S_light == <<"l", "i", "g", "h", "t">>
S_fun_stats == <<"f", "u", "n", " ", "s", "t", "a", "t", "s">>
S_stats == <<"s", "t", "a", "t", "s">>
S_razix == <<"r", "a", "z", "i", "x">>
S_show == <<"s", "h", "o", "w">>
S_lightshow == <<"l", "i", "g", "h", "t", "s", "h", "o", "w">>
S_aura == <<"a", "u", "r", "a">>
S_party == <<"p", "a", "r", "t", "y">>
S_on == <<"o", "n">>
S_turn_on == <<"t", "u", "r", "n", " ", "o", "n">>
S_light_on == <<"l", "i", "g", "h", "t", " ", "o", "n">>
S_off == <<"o", "f", "f">>
S_turn_off == <<"t", "u", "r", "n", " ", "o", "f", "f">>
S_light_off == <<"l", "i", "g", "h", "t", " ", "o", "f", "f">>
S_red == <<"r", "e", "d">>
S_green == <<"g", "r", "e", "e", "n">>
S_blue == <<"b", "l", "u", "e">>
S_teal == <<"t", "e", "a", "l">>
S_dark_green == <<"d", "a", "r", "k", " ", "g", "r", "e", "e", "n">>
S_rgb == <<"r", "g", "b">>
S_fun == <<"f", "u", "n">>
S_status == <<"s", "t", "a", "t", "u", "s">>
S_light_show == <<"l", "i", "g", "h", "t", " ", "s", "h", "o", "w">>
\* input fragments that are no literal of the program
S_set_light == <<"s", "e", "t", " ", "l", "i", "g", "h", "t">>
S_ON == <<"O", "N">>
S_razix_stats == <<"r", "a", "z", "i", "x", " ", "s", "t", "a", "t", "s">>
S_rgb_ok == <<"r", "g", "b", "(", "2", "5", "5", ",", "2", "0", ",", "0", ")">>
S_rgb_loose == <<"r", "g", "b", " ", "9", "9", "9", ",", "0", ",", "0">>
S_ci == <<"c", "i">>
S_CI_Build == <<"C", "I", " ", "B", "u", "i", "l", "d">>
S_Docs == <<"D", "o", "c", "s">>

\* ------------------------------------------------------ Python str operations
UpperCase == <<"A", "B", "C", "D", "E", "F", "G", "H", "I", "J", "K", "L", "M",
               "N", "O", "P", "Q", "R", "S", "T", "U", "V", "W", "X", "Y", "Z">>
LowerCase == <<"a", "b", "c", "d", "e", "f", "g", "h", "i", "j", "k", "l", "m",
               "n", "o", "p", "q", "r", "s", "t", "u", "v", "w", "x", "y", "z">>
Whitespace == {" ", "\t"}
Digits == <<"0", "1", "2", "3", "4", "5", "6", "7", "8", "9">>

LowerChar(c) ==
    IF \E i \in 1..Len(UpperCase) : UpperCase[i] = c
    THEN LowerCase[CHOOSE i \in 1..Len(UpperCase) : UpperCase[i] = c]
    ELSE c

\* str.lower()
Lower(s) == [i \in 1..Len(s) |-> LowerChar(s[i])]

\* str.strip(): leading and trailing whitespace removed
Strip(s) ==
    LET keep == {i \in 1..Len(s) : s[i] \notin Whitespace}
    IN  IF keep = {} THEN <<>> ELSE SubSeq(s, Min(keep), Max(keep))

\* `needle in hay` for str
Contains(needle, hay) ==
    \E i \in 0..(Len(hay) - Len(needle)) : SubSeq(hay, i + 1, i + Len(needle)) = needle

IsDigit(c) == \E i \in 1..Len(Digits) : Digits[i] = c
DigitValue(c) == (CHOOSE i \in 1..Len(Digits) : Digits[i] = c) - 1

\* int() of a string of decimal digits
RECURSIVE ParseInt(_)
ParseInt(ds) ==
    IF ds = <<>> THEN 0
    ELSE 10 * ParseInt(SubSeq(ds, 1, Len(ds) - 1)) + DigitValue(ds[Len(ds)])

\* ----------------------------------------------------------- the rgb pattern
\* rgb\s*\(?\s*(\d{1,3})\s*,\s*(\d{1,3})\s*,\s*(\d{1,3})\s*\)?
\* \s*: the first position at or after i that holds no whitespace
SkipWs(t, i) == Min({j \in i..(Len(t) + 1) : j = Len(t) + 1 \/ t[j] \notin Whitespace})
\* the length of the run of digits that starts at i
RunLen(t, i) == Min({j \in i..(Len(t) + 1) : j = Len(t) + 1 \/ ~IsDigit(t[j])}) - i
CharAt(t, i) == IF i \in 1..Len(t) THEN t[i] ELSE ""

\* The groups of a match that starts at p, or <<>>.  Groups 1 and 2 are followed
\* by \s*, so a run of more than three digits there fails; group 3 is followed
\* only by optional parts, so it takes the first three digits of its run.
RgbMatchAt(t, p) ==
    IF ~(p + 2 <= Len(t) /\ SubSeq(t, p, p + 2) = S_rgb) THEN <<>>
    ELSE
    LET a  == SkipWs(t, p + 3)
        b  == IF CharAt(t, a) = "(" THEN a + 1 ELSE a
        c  == SkipWs(t, b)
        n1 == RunLen(t, c)
        d  == SkipWs(t, c + n1)
        e  == SkipWs(t, d + 1)
        n2 == RunLen(t, e)
        f  == SkipWs(t, e + n2)
        g  == SkipWs(t, f + 1)
        n3 == min(RunLen(t, g), 3)
    IN  IF /\ n1 \in 1..3
           /\ CharAt(t, d) = ","
           /\ n2 \in 1..3
           /\ CharAt(t, f) = ","
           /\ n3 >= 1
        THEN << SubSeq(t, c, c + n1 - 1), SubSeq(t, e, e + n2 - 1), SubSeq(t, g, g + n3 - 1) >>
        ELSE <<>>

\* re.search: the leftmost match, or <<>> for no match
RgbSearch(t) ==
    LET hits == {p \in 1..Len(t) : RgbMatchAt(t, p) # <<>>}
    IN  IF hits = {} THEN <<>> ELSE RgbMatchAt(t, Min(hits))

\* --------------------------------------------------------------- BuildInfo
\* workflow, status and conclusion of a run; the other fields are only printed.
state_key(build) ==
    IF build.status # "completed" THEN build.status
    ELSE IF Falsy(build.conclusion) THEN "unknown" ELSE build.conclusion

BuildColors ==
    [ success         |-> <<0, 220, 80, 80, "green (success)">>,
      failure         |-> <<255, 25, 25, 100, "red (failed)">>,
      timed_out       |-> <<255, 60, 0, 100, "orange-red (timed out)">>,
      action_required |-> <<255, 90, 0, 100, "orange-red (action required)">>,
      startup_failure |-> <<255, 0, 60, 100, "crimson (startup failure)">>,
      cancelled       |-> <<90, 90, 255, 55, "blue (cancelled)">>,
      skipped         |-> <<140, 100, 255, 45, "violet (skipped)">>,
      neutral         |-> <<80, 160, 255, 50, "cool blue (neutral)">>,
      stale           |-> <<180, 110, 220, 45, "muted purple (stale)">>,
      queued          |-> <<255, 180, 0, 70, "amber (queued)">>,
      in_progress     |-> <<255, 130, 0, 80, "orange (in progress)">>,
      waiting         |-> <<255, 180, 0, 70, "amber (waiting)">>,
      requested       |-> <<255, 180, 0, 70, "amber (requested)">>,
      pending         |-> <<255, 180, 0, 70, "amber (pending)">>,
      unknown         |-> <<200, 200, 200, 40, "white (unknown)">> ]

color_for_build(build) ==
    LET key == state_key(build)
    IN  IF key \in DOMAIN BuildColors THEN BuildColors[key] ELSE BuildColors["unknown"]

\* ------------------------------------------------------------ colour mappers
\* color_for_health with G rounded to the nearest integer, not truncated
color_for_health_rounded(score) ==
    LET s == max(0, min(score, 100))
    IN  <<(255 * (100 - s)) \div 100, (255 * s + 50) \div 100, 35,
          35 + ((s * 55) \div 100), <<"health score", s>> >>

\* int(x / y) of non-negative integers: the float quotient truncated.  The
\* operands here stay far below 2^53, where it is the integer quotient.
\* The label of color_for_health, f"health score {s}/100", is kept as the pair.
color_for_health(score) ==
    LET s == max(0, min(score, 100))
        r == (255 * (100 - s)) \div 100
        g == (255 * s) \div 100
        b == 35
        brightness == 35 + ((s * 55) \div 100)
    IN  <<r, g, b, brightness, <<"health score", s>> >>

color_for_activity(recent_commits, unique_authors) ==
    LET intensity == min(100, recent_commits * 3 + unique_authors * 8)
    IN  IF intensity >= 70 THEN <<0, 255, 220, 85, "hyper activity">>
        ELSE IF intensity >= 40 THEN <<120, 180, 255, 65, "steady activity">>
        ELSE <<190, 120, 255, 45, "low activity">>

color_for_pr_pressure(open_prs, open_issues) ==
    LET pressure == min(100, open_prs * 10 + open_issues)
    IN  IF pressure >= 70 THEN <<255, 40, 90, 90, "high review pressure">>
        ELSE IF pressure >= 40 THEN <<255, 150, 40, 75, "medium review pressure">>
        ELSE <<80, 230, 120, 55, "low review pressure">>

\* ----------------------------------------------------------- JSON objects
\* A JSON object is a function on its keys; dict.get(key, default).
Get(d, k, default) == IF k \in DOMAIN d THEN d[k] ELSE default

\* the workflow-name filter of get_latest_build and build_repo_stats; a filter
\* that is None or "" is falsy and keeps every run
FilterRuns(runs, workflow_filter) ==
    IF workflow_filter = <<>> THEN runs
    ELSE LET needle == Lower(workflow_filter)
         IN  SelectSeq(runs, LAMBDA r : Contains(needle, Lower(Get(r, "name", <<>>))))

\* BuildInfo(...) of a run
BuildInfo(run) ==
    [ workflow   |-> Get(run, "name", <<"u", "n", "k", "n", "o", "w", "n">>),
      status     |-> Get(run, "status", "unknown"),
      conclusion |-> Get(run, "conclusion", None) ]

\* ------------------------------------------------------ Repo Stats Aggregator
\* every success among the completed runs, counted without stopping at the
\* first run that did not succeed
SuccessStreak_total(completed_runs) ==
    Len(SelectSeq(completed_runs, LAMBDA r : Get(r, "conclusion", None) = "success"))

\* the streak loop: count from the newest completed run, break at the first
\* conclusion that is not "success"
RECURSIVE SuccessStreak(_)
SuccessStreak(completed_runs) ==
    IF completed_runs = <<>> THEN 0
    ELSE IF Get(Head(completed_runs), "conclusion", None) = "success"
         THEN 1 + SuccessStreak(Tail(completed_runs))
         ELSE 0

\* the score before the final clamp; success_rate is successes / completed * 100.0
\* and int(success_rate / 4) is the integer quotient of 25 * successes by completed
RawScore(stars, n_success, n_completed, streak, unique_authors, recent_commits, open_issues, open_prs) ==
    50 + min(stars \div 50, 15)
       + min(IF n_completed = 0 THEN 0 ELSE (25 * n_success) \div n_completed, 25)
       + min(streak * 2, 10)
       + min(unique_authors * 2, 10)
       + min(recent_commits \div 2, 10)
       - min(open_issues \div 40, 10)
       - min(open_prs \div 10, 5)

\* the score stored as it is summed, without line 192's clamp
HealthScore_unclamped(score) == score

HealthScore(score) == max(0, min(score, 100))

Vibe(health_score) ==
    IF health_score >= 85 THEN "Ship It Mode"
    ELSE IF health_score >= 70 THEN "Cruising"
    ELSE IF health_score >= 55 THEN "Focused Grind"
    ELSE IF health_score >= 40 THEN "Code Yellow"
    ELSE "Fixathon"

\* build_repo_stats once its four payloads are in: lines 152-222
build_repo_stats(repo_data, commits, pulls, all_runs, workflow_filter) ==
    LET runs == FilterRuns(all_runs, workflow_filter)
        completed_runs == SelectSeq(runs, LAMBDA r : Get(r, "status", None) = "completed")
        successes == SelectSeq(completed_runs, LAMBDA r : Get(r, "conclusion", None) = "success")
        streak == SuccessStreak(completed_runs)
        authors == {Get(commits[i], "login", "") : i \in 1..Len(commits)} \ {"", None}
        last_commit_at == IF commits = <<>> THEN "" ELSE Get(commits[1], "date", "")
        stars == Get(repo_data, "stargazers_count", 0)
        open_issues == Get(repo_data, "open_issues_count", 0)
        open_prs == Len(pulls)
        recent_commits == Len(commits)
        unique_authors == Cardinality(authors)
        score == RawScore(stars, Len(successes), Len(completed_runs), streak,
                          unique_authors, recent_commits, open_issues, open_prs)
        health_score == HealthScore(score)
    IN  [ stars |-> stars,
          open_issues |-> open_issues,
          open_prs |-> open_prs,
          recent_commits |-> recent_commits,
          unique_authors |-> unique_authors,
          last_commit_at |-> last_commit_at,
          total_recent_runs |-> Len(runs),
          completed_recent_runs |-> Len(completed_runs),
          success_rate |-> IF completed_runs = <<>> THEN <<0, 1>>
                           ELSE <<100 * Len(successes), Len(completed_runs)>>,
          success_streak |-> streak,
          health_score |-> health_score,
          vibe |-> Vibe(health_score) ]

\* _parse_ts: strptime(ts, "%Y-%m-%dT%H:%M:%SZ") raises ValueError on any other text
ValidTimestamps == {"2024-05-01T10:00:00Z"}
ParsesAsTimestamp(ts) == ts \in ValidTimestamps

\* print_fun_stats raises exactly when last_commit_at is non-empty and unparsable
print_fun_stats_raises(stats) ==
    stats.last_commit_at # "" /\ ~ParsesAsTimestamp(stats.last_commit_at)

\* -------------------------------------------------------------- Device Sink
\* WizBulb.set_color / set_state: the params of the setPilot command sent
set_color(r, g, b, brightness) == [state |-> TRUE, r |-> r, g |-> g, b |-> b, dimming |-> brightness]
set_state(on) == [state |-> on]

\* set_light(ip, color): the label is printed, the rest is sent
set_light(color) == set_color(color[1], color[2], color[3], color[4])
set_light_for_build(build) == set_light(color_for_build(build))

\* the lightshow with its first two phases exchanged
run_fun_lightshow_health_first(build, stats) ==
    << set_light(color_for_health(stats.health_score)),
       set_light(color_for_build(build)),
       set_light(color_for_activity(stats.recent_commits, stats.unique_authors)),
       set_light(color_for_pr_pressure(stats.open_prs, stats.open_issues)) >>

\* run_fun_lightshow: the device calls of the four phases, in order
run_fun_lightshow(build, stats) ==
    << set_light(color_for_build(build)),
       set_light(color_for_health(stats.health_score)),
       set_light(color_for_activity(stats.recent_commits, stats.unique_authors)),
       set_light(color_for_pr_pressure(stats.open_prs, stats.open_issues)) >>

\* ------------------------------------------------------------- Intent Router
\* text = command.strip().lower()
Text(command) == Lower(Strip(command))

IsStatusQuery(text) == Contains(S_last_build, text) \/ Contains(S_build_status, text)
IsSync(text) == Contains(S_sync, text) /\ Contains(S_build, text)
IsFunStats(text) == Contains(S_fun_stats, text) \/ (Contains(S_stats, text) /\ Contains(S_razix, text))
IsLightshow(text) == Contains(S_lightshow, text) \/ Contains(S_aura, text) \/ Contains(S_party, text)
IsOn(text) == text \in {S_on, S_turn_on, S_light_on}
IsOff(text) == text \in {S_off, S_turn_off, S_light_off}
WantsLight(text) == Contains(S_set, text) /\ Contains(S_light, text)
WantsShow(text) == Contains(S_light, text) \/ Contains(S_show, text)

\* the presets dict, in its insertion order
PresetNames == <<S_red, S_green, S_blue, S_teal, S_dark_green>>
PresetColors == << <<255, 0, 0, 100>>, <<0, 255, 0, 100>>, <<0, 0, 255, 100>>,
                   <<20, 190, 170, 55>>, <<20, 110, 45, 22>> >>

\* for name, ... in presets.items(): if name in text: ... return
\* the index of the first preset whose name the text contains, or 0
PresetOf(text) ==
    LET hits == {i \in 1..Len(PresetNames) : Contains(PresetNames[i], text)}
    IN  IF hits = {} THEN 0 ELSE Min(hits)

\* the router with the sync branch tested before the status branch
Rule_sync_first(text) ==
    IF IsSync(text) THEN 2
    ELSE IF IsStatusQuery(text) THEN 1
    ELSE IF IsFunStats(text) THEN 3
    ELSE IF IsLightshow(text) THEN 4
    ELSE IF IsOn(text) THEN 5
    ELSE IF IsOff(text) THEN 6
    ELSE IF PresetOf(text) # 0 THEN 7
    ELSE IF RgbSearch(text) # <<>> THEN 8
    ELSE 9

\* the branch of run_nl_command that handles the text: 1..8, or 9 for the raise
Rule(text) ==
    IF IsStatusQuery(text) THEN 1
    ELSE IF IsSync(text) THEN 2
    ELSE IF IsFunStats(text) THEN 3
    ELSE IF IsLightshow(text) THEN 4
    ELSE IF IsOn(text) THEN 5
    ELSE IF IsOff(text) THEN 6
    ELSE IF PresetOf(text) # 0 THEN 7
    ELSE IF RgbSearch(text) # <<>> THEN 8
    ELSE 9

\* the device call of the preset branch
PresetCall(text) ==
    LET c == PresetColors[PresetOf(text)]
    IN  set_color(c[1], c[2], c[3], c[4])

\* the device call of the rgb branch: r, g, b = map(int, rgb.groups())
RgbCall(text) ==
    LET m == RgbSearch(text)
    IN  set_color(ParseInt(m[1]), ParseInt(m[2]), ParseInt(m[3]), 80)

\* run_nl_command as a whole: the device calls it makes for a command, in
\* order, when its requests are answered with the build and the stats given
\* and every device call is answered
run_nl_command(command, b, st) ==
    LET text == Text(command)
        r == Rule(text)
    IN  CASE r = 1 -> IF WantsLight(text) THEN <<set_light_for_build(b)>> ELSE <<>>
          [] r = 2 -> <<set_light_for_build(b)>>
          [] r = 3 -> IF print_fun_stats_raises(st) THEN <<>>
                      ELSE IF WantsShow(text) THEN run_fun_lightshow(b, st) ELSE <<>>
          [] r = 4 -> run_fun_lightshow(b, st)
          [] r = 5 -> <<set_state(TRUE)>>
          [] r = 6 -> <<set_state(FALSE)>>
          [] r = 7 -> <<PresetCall(text)>>
          [] r = 8 -> <<RgbCall(text)>>
          [] OTHER -> <<>>

\* ------------------------------------------------------------ intent wrapper
\* the parsed arguments of razix_build_light.py; a command that is None or ""
\* is falsy and is the empty sequence here
Args(status, set_light_, fun_stats, fun_lightshow, command) ==
    [ status |-> status, set_light |-> set_light_, fun_stats |-> fun_stats,
      fun_lightshow |-> fun_lightshow, command |-> command ]
NoArgs == Args(FALSE, FALSE, FALSE, FALSE, <<>>)

build_args_from_intent(intent) ==
    LET text == Lower(Strip(intent))
    IN  IF Contains(S_sync, text) /\ Contains(S_build, text) /\ Contains(S_light, text)
        THEN Args(TRUE, TRUE, FALSE, FALSE, <<>>)
        ELSE IF /\ Contains(S_fun, text) /\ Contains(S_stats, text)
                /\ (Contains(S_lightshow, text) \/ Contains(S_light_show, text))
        THEN Args(TRUE, FALSE, TRUE, TRUE, <<>>)
        ELSE IF Contains(S_fun, text) /\ Contains(S_stats, text)
        THEN Args(TRUE, FALSE, TRUE, FALSE, <<>>)
        ELSE IF Contains(S_last_build, text) \/ Contains(S_build_status, text) \/ text = S_status
        THEN Args(TRUE, FALSE, FALSE, FALSE, <<>>)
        ELSE IF \/ Contains(S_lightshow, text) \/ Contains(S_light_show, text)
                \/ Contains(S_aura, text) \/ Contains(S_party, text)
        THEN Args(FALSE, FALSE, FALSE, TRUE, <<>>)
        ELSE Args(FALSE, FALSE, FALSE, FALSE, intent)

\* main's except clauses: HTTPError -> 2, any other Exception -> 1
ExitStatus(exc) == IF exc = "HTTPError" THEN 2 ELSE 1

\* --------------------------------------------------------------- inputs
Fragments ==
    { S_build_status, S_sync, S_build, S_set_light, S_fun_stats, S_razix_stats,
      S_lightshow, S_ON, S_off, S_dark_green, S_rgb_ok, S_rgb_loose, <<>> }

RECURSIVE Join(_)
Join(frags) ==
    IF Len(frags) = 1 THEN frags[1]
    ELSE frags[1] \o <<" ">> \o Join(Tail(frags))

\* the command texts: up to MaxFrags fragments joined by single spaces
Texts == {Join(fs) : fs \in UNION {[1..n -> Fragments] : n \in 1..MaxFrags}}

\* what the CI provider holds when the command runs, and the --workflow filter
Logins == <<"ann", "bob", "cy", "dee", "eve", "fay">>
RunSuccess == [name |-> S_CI_Build, status |-> "completed", conclusion |-> "success"]
RunFailure == [name |-> S_CI_Build, status |-> "completed", conclusion |-> "failure"]
RunInProgress == [name |-> S_Docs, status |-> "in_progress", conclusion |-> None]
RunBare == [name |-> S_Docs]

Worlds ==
    { [ workflow |-> <<>>,
        runs     |-> <<RunSuccess, RunSuccess, RunInProgress>>,
        repo     |-> [stargazers_count |-> 3000, open_issues_count |-> 10],
        commits  |-> [i \in 1..24 |-> [login |-> Logins[(i % 6) + 1], date |-> "2024-05-01T10:00:00Z"]],
        pulls    |-> <<"pr", "pr">> ],
      [ workflow |-> S_ci,
        runs     |-> <<RunInProgress, RunFailure, RunSuccess>>,
        repo     |-> [stargazers_count |-> 10, open_issues_count |-> 500],
        commits  |-> <<[login |-> "ann", date |-> "2024-05-01T10:00:00Z"], [login |-> None]>>,
        pulls    |-> [i \in 1..60 |-> "pr"] ],
      [ workflow |-> <<>>,
        runs     |-> <<RunBare>>,
        repo     |-> [full_name |-> "Pikachuxxxx/Razix"],
        commits  |-> <<[login |-> "bob", date |-> "yesterday"]>>,
        pulls    |-> <<>> ],
      [ workflow |-> S_ci,
        runs     |-> <<RunBare, RunInProgress>>,
        repo     |-> [stargazers_count |-> 0, open_issues_count |-> 0],
        commits  |-> <<>>,
        pulls    |-> <<>> ] }
NoWorld == [workflow |-> <<>>, runs |-> <<>>, repo |-> <<>>, commits |-> <<>>, pulls |-> <<>>]

\* what one request to the provider can do: answer with the payload, answer with a
\* payload of another JSON type, fail with a non-2xx status, fail below HTTP
Outcomes == {"ok", "wrong_shape", "HTTPError", "URLError"}
\* the outcomes in which urlopen raises
Faults == {"HTTPError", "URLError"}

\* --------------------------------------------------------------- the state
VARIABLES
    caller,     \* "wrapper": run_razix_intent.py was started; "direct": razix_build_light.py
    input,      \* the intent (wrapper) or the --command text (direct)
    args,       \* the arguments razix_build_light.py is started with
    world,      \* the provider's data and the workflow filter, once the first request is made
    pc,         \* "wrapper", "main", "get_latest_build", "repo", "commits", "pulls", "runs", "device", "done"
    rule,       \* the branch of run_nl_command taken (0: none)
    build,      \* <<>> or <<BuildInfo>>
    stats,      \* <<>> or <<RepoStats>>
    locals,     \* repo_data, commits and pulls of a build_repo_stats call in progress
    queue,      \* the device calls still to make
    sent,       \* the setPilot params sent to the bulb, in order
    awaiting,   \* a datagram was sent and its reply is awaited
    replies,    \* the number of replies received
    fetched,    \* the provider resources requested, in order
    error,      \* "" or the exception that ended the command
    exit_code,  \* -1 while the process runs, then its exit status
    faults,     \* the requests and device calls that failed, in order (history)
    fin,        \* the input of a function exercised alone
    fout        \* <<>> or its result

vars == << caller, input, args, world, pc, rule, build, stats, locals, queue, sent,
           awaiting, replies, fetched, error, exit_code, faults, fin, fout >>

NoLocals == [repo_data |-> <<>>, commits |-> <<>>, pulls |-> <<>>]

FlagArgs ==
    {Args(a, b, c, d, <<>>) : a \in BOOLEAN, b \in BOOLEAN, c \in BOOLEAN, d \in BOOLEAN}

Init ==
    /\ \/ /\ caller = "wrapper"
          /\ input \in Texts
          /\ args = NoArgs
          /\ pc = "wrapper"
       \/ /\ caller = "direct"
          /\ \/ input \in Texts /\ args = Args(FALSE, FALSE, FALSE, FALSE, input)
             \/ input = <<>> /\ args \in FlagArgs
          /\ pc = "main"
    /\ world = NoWorld
    /\ rule = 0
    /\ build = <<>>
    /\ stats = <<>>
    /\ locals = NoLocals
    /\ queue = <<>>
    /\ sent = <<>>
    /\ awaiting = FALSE
    /\ replies = 0
    /\ fetched = <<>>
    /\ error = ""
    /\ exit_code = -1
    /\ faults = <<>>
    /\ fin = <<>>
    /\ fout = <<>>

\* ------------------------------------------------------------ control flow
\* an exception leaves every frame and reaches main's except clauses
Raise(exc) ==
    /\ pc' = "done"
    /\ error' = exc
    /\ exit_code' = ExitStatus(exc)
    /\ queue' = <<>>

\* the device calls q are made one after the other, then main returns 0
Proceed(q) ==
    /\ queue' = q
    /\ error' = ""
    /\ IF q = <<>> THEN pc' = "done" /\ exit_code' = 0
                   ELSE pc' = "device" /\ exit_code' = -1

\* run_razix_intent.main
WrapperMain ==
    /\ pc = "wrapper"
    /\ \E script_exists \in BOOLEAN, dry_run \in BOOLEAN :
          IF ~script_exists
          THEN /\ pc' = "done" /\ error' = "script not found" /\ exit_code' = 2
               /\ args' = args
          ELSE /\ args' = build_args_from_intent(input)
               /\ error' = ""
               /\ IF dry_run THEN pc' = "done" /\ exit_code' = 0
                             ELSE pc' = "main" /\ exit_code' = -1
    /\ UNCHANGED << caller, input, world, rule, build, stats, locals, queue, sent,
                    awaiting, replies, fetched, faults, fin, fout >>

\* razix_build_light.main up to its first request, run_nl_command's dispatch included
Main ==
    /\ pc = "main"
    /\ IF ~(args.status \/ args.set_light \/ args.fun_stats \/ args.fun_lightshow
            \/ args.command # <<>>)
       THEN \* parser.error: argparse exits with status 2
            /\ pc' = "done" /\ error' = "usage" /\ exit_code' = 2
            /\ UNCHANGED << rule, queue >>
       ELSE IF args.command # <<>>
       THEN LET text == Text(args.command)
                r == Rule(text)
            IN  /\ rule' = r
                /\ CASE r \in 1..4 -> /\ pc' = "get_latest_build"
                                      /\ UNCHANGED << error, exit_code, queue >>
                     [] r = 5 -> Proceed(<<set_state(TRUE)>>)
                     [] r = 6 -> Proceed(<<set_state(FALSE)>>)
                     [] r = 7 -> Proceed(<<PresetCall(text)>>)
                     [] r = 8 -> Proceed(<<RgbCall(text)>>)
                     [] OTHER -> Raise("RuntimeError")
       ELSE /\ pc' = "get_latest_build"
            /\ UNCHANGED << rule, error, exit_code, queue >>
    /\ UNCHANGED << caller, input, args, world, build, stats, locals, sent,
                    awaiting, replies, fetched, faults, fin, fout >>

\* every caller going on to build_repo_stats, the status and sync branches too
AfterBuild_always_stats(b) ==
    /\ pc' = "repo"
    /\ UNCHANGED << error, exit_code, queue >>

\* what follows get_latest_build in its caller
AfterBuild(b) ==
    IF rule \in {1, 2}
    THEN LET text == Text(args.command)
         IN  Proceed(IF rule = 2 \/ WantsLight(text) THEN <<set_light_for_build(b)>> ELSE <<>>)
    ELSE /\ pc' = "repo"
         /\ UNCHANGED << error, exit_code, queue >>

\* get_latest_build: one request for the runs, the filter, the first run
GetLatestBuild ==
    /\ pc = "get_latest_build"
    /\ fetched' = Append(fetched, "runs")
    /\ \E w \in Worlds, outcome \in Outcomes :
          /\ world' = w
          /\ faults' = IF outcome \in Faults THEN Append(faults, outcome) ELSE faults
          /\ CASE outcome \in Faults -> Raise(outcome) /\ build' = build
               [] outcome = "wrong_shape" -> Raise("AttributeError") /\ build' = build
               [] OTHER ->
                    LET runs == FilterRuns(w.runs, w.workflow)
                    IN  IF runs = <<>>
                        THEN Raise("RuntimeError") /\ build' = build
                        ELSE /\ build' = <<BuildInfo(runs[1])>>
                             /\ AfterBuild(BuildInfo(runs[1]))
    /\ UNCHANGED << caller, input, args, rule, stats, locals, sent, awaiting, replies, fin, fout >>

\* build_repo_stats: repo_data = _api_get(.../repos/{repo})
ApiGetRepo ==
    /\ pc = "repo"
    /\ fetched' = Append(fetched, "repo")
    /\ \E outcome \in Outcomes :
          /\ faults' = IF outcome \in Faults THEN Append(faults, outcome) ELSE faults
          /\ CASE outcome \in Faults -> Raise(outcome) /\ locals' = locals
            [] outcome = "wrong_shape" -> Raise("AttributeError") /\ locals' = locals
            [] OTHER -> /\ locals' = [locals EXCEPT !.repo_data = world.repo]
                        /\ pc' = "commits"
                        /\ UNCHANGED << error, exit_code, queue >>
    /\ UNCHANGED << caller, input, args, world, rule, build, stats, sent, awaiting, replies, fin, fout >>

\* build_repo_stats: commits = _api_get(.../commits); a non-list becomes []
ApiGetCommits ==
    /\ pc = "commits"
    /\ fetched' = Append(fetched, "commits")
    /\ \E outcome \in Outcomes :
          /\ faults' = IF outcome \in Faults THEN Append(faults, outcome) ELSE faults
          /\ CASE outcome \in Faults -> Raise(outcome) /\ locals' = locals
            [] OTHER -> /\ locals' = [locals EXCEPT !.commits =
                                         IF outcome = "wrong_shape" THEN <<>> ELSE world.commits]
                        /\ pc' = "pulls"
                        /\ UNCHANGED << error, exit_code, queue >>
    /\ UNCHANGED << caller, input, args, world, rule, build, stats, sent, awaiting, replies, fin, fout >>

\* build_repo_stats: pulls = _api_get(.../pulls); a non-list becomes []
ApiGetPulls ==
    /\ pc = "pulls"
    /\ fetched' = Append(fetched, "pulls")
    /\ \E outcome \in Outcomes :
          /\ faults' = IF outcome \in Faults THEN Append(faults, outcome) ELSE faults
          /\ CASE outcome \in Faults -> Raise(outcome) /\ locals' = locals
            [] OTHER -> /\ locals' = [locals EXCEPT !.pulls =
                                         IF outcome = "wrong_shape" THEN <<>> ELSE world.pulls]
                        /\ pc' = "runs"
                        /\ UNCHANGED << error, exit_code, queue >>
    /\ UNCHANGED << caller, input, args, world, rule, build, stats, sent, awaiting, replies, fin, fout >>

\* what follows build_repo_stats in its caller
AfterStats(b, st) ==
    IF rule = 3
    THEN IF print_fun_stats_raises(st) THEN Raise("ValueError")
         ELSE Proceed(IF WantsShow(Text(args.command)) THEN run_fun_lightshow(b, st) ELSE <<>>)
    ELSE IF rule = 4
    THEN Proceed(run_fun_lightshow(b, st))
    ELSE IF args.fun_stats /\ print_fun_stats_raises(st) THEN Raise("ValueError")
         ELSE Proceed((IF args.set_light THEN <<set_light_for_build(b)>> ELSE <<>>)
                      \o (IF args.fun_lightshow THEN run_fun_lightshow(b, st) ELSE <<>>))

\* build_repo_stats: runs = get_recent_runs(...), then the aggregation
GetRecentRuns ==
    /\ pc = "runs"
    /\ fetched' = Append(fetched, "runs")
    /\ \E outcome \in Outcomes :
          /\ faults' = IF outcome \in Faults THEN Append(faults, outcome) ELSE faults
          /\ CASE outcome \in Faults -> Raise(outcome) /\ stats' = stats
            [] outcome = "wrong_shape" -> Raise("AttributeError") /\ stats' = stats
            [] OTHER ->
                 LET st == build_repo_stats(locals.repo_data, locals.commits, locals.pulls,
                                            world.runs, world.workflow)
                 IN  /\ stats' = <<st>>
                     /\ AfterStats(build[1], st)
    /\ locals' = NoLocals
    /\ UNCHANGED << caller, input, args, world, rule, build, sent, awaiting, replies, fin, fout >>

\* WizBulb.send: sock.sendto(...)
DeviceSend ==
    /\ pc = "device"
    /\ ~awaiting
    /\ queue # <<>>
    /\ sent' = Append(sent, Head(queue))
    /\ awaiting' = TRUE
    /\ UNCHANGED << caller, input, args, world, pc, rule, build, stats, locals, queue,
                    replies, fetched, error, exit_code, faults, fin, fout >>

\* WizBulb.send: sock.recvfrom(...) returns the reply
DeviceReply ==
    /\ pc = "device"
    /\ awaiting
    /\ awaiting' = FALSE
    /\ replies' = replies + 1
    /\ Proceed(Tail(queue))
    /\ UNCHANGED << caller, input, args, world, rule, build, stats, locals, sent,
                    fetched, faults, fin, fout >>

\* a timeout that is caught and ignored: the command goes on to its next call
DeviceTimeout_swallowed ==
    /\ pc = "device"
    /\ awaiting
    /\ awaiting' = FALSE
    /\ Proceed(Tail(queue))
    /\ faults' = Append(faults, "timeout")
    /\ UNCHANGED << caller, input, args, world, rule, build, stats, locals, sent,
                    replies, fetched, fin, fout >>

\* WizBulb.send: sock.recvfrom(...) raises socket.timeout after self.timeout
DeviceTimeout ==
    /\ pc = "device"
    /\ awaiting
    /\ awaiting' = FALSE
    /\ Raise("timeout")
    /\ faults' = Append(faults, "timeout")
    /\ UNCHANGED << caller, input, args, world, rule, build, stats, locals, sent,
                    replies, fetched, fin, fout >>

Next ==
    \/ WrapperMain
    \/ Main
    \/ GetLatestBuild
    \/ ApiGetRepo
    \/ ApiGetCommits
    \/ ApiGetPulls
    \/ GetRecentRuns
    \/ DeviceSend
    \/ DeviceReply
    \/ DeviceTimeout

Spec == Init /\ [][Next]_vars

\* ------------------------------------------------- functions exercised alone
\* the command process at rest, while a function is exercised alone
Idle ==
    /\ caller = "none"
    /\ input = <<>>
    /\ args = NoArgs
    /\ world = NoWorld
    /\ pc = "idle"
    /\ rule = 0
    /\ build = <<>>
    /\ stats = <<>>
    /\ locals = NoLocals
    /\ queue = <<>>
    /\ sent = <<>>
    /\ awaiting = FALSE
    /\ replies = 0
    /\ fetched = <<>>
    /\ error = ""
    /\ exit_code = -1
    /\ faults = <<>>

pvars == << caller, input, args, world, pc, rule, build, stats, locals, queue, sent,
            awaiting, replies, fetched, error, exit_code, faults >>

\* color_for_health on every score from -ScoreSlack to 100 + ScoreSlack
InitHealth ==
    /\ Idle
    /\ fin \in (0 - ScoreSlack)..(100 + ScoreSlack)
    /\ fout = <<>>

CallColorForHealth ==
    /\ fout = <<>>
    /\ fout' = <<color_for_health(fin)>>
    /\ UNCHANGED << fin, pvars >>

NextHealth == CallColorForHealth

SpecHealth == InitHealth /\ [][NextHealth]_vars

\* build_repo_stats on payloads of every size class and every run list of up to
\* MaxRuns runs
RunKinds == {RunSuccess, RunFailure, RunInProgress, RunBare}
RunLists == UNION {[1..n -> RunKinds] : n \in 0..MaxRuns}
CommitLists ==
    { <<>>,
      <<[login |-> "ann", date |-> "2024-05-01T10:00:00Z"], [login |-> None]>>,
      [i \in 1..24 |-> [login |-> Logins[(i % 6) + 1], date |-> "2024-05-01T10:00:00Z"]] }
PullLists == {[i \in 1..n |-> "pr"] : n \in {0, 10, 200}}
RepoDatas ==
    {[stargazers_count |-> st, open_issues_count |-> oi] :
        st \in {0, 749, 1000000}, oi \in {0, 399, 1000000}}
    \cup {[full_name |-> "Pikachuxxxx/Razix"]}

InitStats ==
    /\ Idle
    /\ fin \in [ repo_data : RepoDatas, commits : CommitLists, pulls : PullLists,
                 runs : RunLists, workflow : {<<>>, S_ci} ]
    /\ fout = <<>>

CallBuildRepoStats ==
    /\ fout = <<>>
    /\ fout' = <<build_repo_stats(fin.repo_data, fin.commits, fin.pulls, fin.runs, fin.workflow)>>
    /\ UNCHANGED << fin, pvars >>

NextStats == CallBuildRepoStats

SpecStats == InitStats /\ [][NextStats]_vars

\* BuildInfo and state_key on run records whose "status" and "conclusion" are
\* missing, null, empty or a word
RunStatuses == {None, "", "completed", "in_progress", "queued", "waiting"}
RunConclusions == {None, "", "success", "failure", "cancelled"}
RunNames == {S_CI_Build, S_Docs}
RawRuns ==
    [name : RunNames]
    \cup [name : RunNames, status : RunStatuses]
    \cup [name : RunNames, conclusion : RunConclusions]
    \cup [name : RunNames, status : RunStatuses, conclusion : RunConclusions]

InitBuild ==
    /\ Idle
    /\ fin \in RawRuns
    /\ fout = <<>>

CallBuildInfo ==
    /\ fout = <<>>
    /\ fout' = <<BuildInfo(fin)>>
    /\ UNCHANGED << fin, pvars >>

NextBuild == CallBuildInfo

SpecBuild == InitBuild /\ [][NextBuild]_vars

\* ------------------------------------------------------------------ claims
IsPrefix(a, b) == Len(a) <= Len(b) /\ SubSeq(b, 1, Len(a)) = a

\* the requests of a command that fetches the build and the stats, in order
AllFetches == <<"runs", "repo", "commits", "pulls", "runs">>

\* C1: whatever the stars, issues, pull requests, commits, authors and runs, the
\* health_score of the RepoStats that build_repo_stats returns is an integer
\* from 0 to 100.
C1_HealthScoreInRange ==
    fout # <<>> => fout[1].health_score \in 0..100

\* C1 witness: a RepoStats whose summed score exceeds 100 and is stored as 100
C1_Witness ==
    /\ fout # <<>>
    /\ LET st == fout[1]
       IN  /\ RawScore(st.stars, st.success_rate[1] \div 100, st.success_rate[2],
                       st.success_streak, st.unique_authors, st.recent_commits,
                       st.open_issues, st.open_prs) > 100
           /\ st.health_score = 100

\* C2 as stated: for every score, clamped first, color_for_health returns
\* R + G = 255 exactly.
C2_SumIs255 ==
    fout # <<>> => fout[1][1] + fout[1][2] = 255

\* C2 as amended: with s the score clamped to 0..100, R and G lie in 0..255 and
\* R + G is 255 when s is a multiple of 20 and 254 otherwise (both quotients
\* are truncated, and each loses a fraction unless 255 * s is a multiple of 100).
C2_SumIs254Or255 ==
    fout # <<>> =>
        LET s == max(0, min(fin, 100))
            r == fout[1][1]
            g == fout[1][2]
        IN  /\ r \in 0..255
            /\ g \in 0..255
            /\ r + g = (IF s % 20 = 0 THEN 255 ELSE 254)

\* C2 witness: a score inside 1..99, no multiple of 20, mapped to R + G = 254
C2_Witness ==
    /\ fout # <<>>
    /\ fin \in 1..99
    /\ fin % 20 # 0
    /\ fout[1][1] + fout[1][2] = 254

\* C3: a command that reaches the preset branch and contains "dark green"
\* pushes the dark green preset (20,110,45,22) to the device.
C3_DarkGreenPushed ==
    (rule = 7 /\ sent # <<>> /\ Contains(S_dark_green, Text(args.command)))
        => sent[1] = set_color(20, 110, 45, 22)

\* C4: every colour sent to the device has R, G and B in 0..255 and a
\* brightness in 0..100.
C4_ColoursInRange ==
    \A i \in 1..Len(sent) :
        "r" \in DOMAIN sent[i] =>
            /\ sent[i].r \in 0..255
            /\ sent[i].g \in 0..255
            /\ sent[i].b \in 0..255
            /\ sent[i].dimming \in 0..100

\* C5: the router takes the first matching branch only.  A text containing
\* "last build" or "build status" is handled by rule 1 even when it contains
\* "sync" and "build"; under rule 1 nothing is sent unless the text contains
\* "set" and "light", and once the build is fetched exactly the build colour is
\* sent when it does; a text matching rule 2 and not rule 1 is handled by rule 2,
\* which, once the build is fetched, sends exactly the build colour.
C5_RulePriority ==
    rule # 0 =>
        LET text == Text(args.command)
            fetched_build == build # <<>> /\ pc = "done"
        IN  /\ IsStatusQuery(text) => rule = 1
            /\ (IsSync(text) /\ ~IsStatusQuery(text)) => rule = 2
            /\ (rule = 1 /\ ~WantsLight(text)) => sent = <<>>
            /\ (rule = 1 /\ WantsLight(text) /\ fetched_build)
                   => sent = <<set_light(color_for_build(build[1]))>>
            /\ (rule = 2 /\ fetched_build)
                   => sent = <<set_light(color_for_build(build[1]))>>
            /\ rule \in {1, 2} => (stats = <<>> /\ Len(sent) <= 1)

\* C5 witness: a text with "sync", "build" and "build status" and without
\* "set"/"light", handled by rule 1: the build was fetched and nothing was sent
C5_Witness ==
    /\ rule = 1
    /\ IsSync(Text(args.command))
    /\ ~WantsLight(Text(args.command))
    /\ build # <<>>
    /\ pc = "done"
    /\ exit_code = 0
    /\ sent = <<>>

\* C6: a command handled by rule 1 or 2 requests the runs once and never the
\* repo metadata, commits or pulls; a command handled by rules 5-9 requests
\* nothing; a command handled by rule 3 or 4 requests runs, repo, commits, pulls
\* and runs again, in that order, stopping short only at a request that failed.
C6_FetchesPerRule ==
    rule # 0 =>
        /\ rule \in {1, 2} => fetched \in {<<>>, <<"runs">>}
        /\ rule \in 5..9 => fetched = <<>>
        /\ rule \in {3, 4} =>
              /\ IsPrefix(fetched, AllFetches)
              /\ (pc \in {"device", "done"} /\ fetched # AllFetches)
                     => error \in {"HTTPError", "URLError", "AttributeError", "RuntimeError"}
              /\ stats # <<>> => fetched = AllFetches

\* C6 witness: a rule 3 command that ended well after all five requests
C6_Witness ==
    /\ rule = 3
    /\ pc = "done"
    /\ exit_code = 0
    /\ fetched = AllFetches

\* C7: a lightshow sends the build, health, activity and pr-pressure colours of
\* the one build/stats snapshot, in that order, each call sent only once every
\* earlier call has been answered; a show that completes has sent exactly these
\* four (after the build colour of --set-light, when main was given both flags).
C7_LightshowOrder ==
    ( /\ stats # <<>>
      /\ error # "ValueError"
      /\ \/ rule = 4
         \/ rule = 3 /\ WantsShow(Text(args.command))
         \/ rule = 0 /\ args.fun_lightshow )
    =>
        LET b == build[1]
            st == stats[1]
            before == IF rule = 0 /\ args.set_light
                      THEN <<set_light(color_for_build(b))>> ELSE <<>>
            show == << set_light(color_for_build(b)),
                       set_light(color_for_health(st.health_score)),
                       set_light(color_for_activity(st.recent_commits, st.unique_authors)),
                       set_light(color_for_pr_pressure(st.open_prs, st.open_issues)) >>
        IN  /\ IsPrefix(sent, before \o show)
            /\ pc = "device" => Len(sent) = replies + (IF awaiting THEN 1 ELSE 0)
            /\ (pc = "done" /\ exit_code = 0)
                   => (sent = before \o show /\ replies = Len(sent))

\* C7 witness: a lightshow command that ended well after four answered calls
C7_Witness ==
    /\ rule = 4
    /\ pc = "done"
    /\ exit_code = 0
    /\ Len(sent) = 4
    /\ replies = 4

\* C8: once a request or a device call has failed, the command is over: it is
\* the only failure, it is the command's error and the exit status is not 0,
\* no call is pending or waiting, a failed request is the last one made and
\* nothing was sent after it, and a device call that timed out is the last one
\* sent (the later phases of a lightshow are never sent).
C8_FirstFailureAborts ==
    faults # <<>> =>
        /\ Len(faults) = 1
        /\ pc = "done"
        /\ error = faults[1]
        /\ exit_code \in {1, 2}
        /\ queue = <<>>
        /\ ~awaiting
        /\ faults[1] = "timeout" => Len(sent) = replies + 1
        /\ faults[1] # "timeout" => (sent = <<>> /\ IsPrefix(fetched, AllFetches))

\* C8 witness: the second phase of a lightshow timed out and two calls were sent
C8_Witness ==
    /\ rule = 4
    /\ faults = <<"timeout">>
    /\ Len(sent) = 2
    /\ replies = 1
    /\ pc = "done"

\* C9: a command that has entered build_repo_stats gets a RepoStats from it,
\* whichever of the four requests fails or answers with another JSON type.
C9_StatsAlwaysReturned ==
    (pc = "done" /\ Len(fetched) >= 2) => stats # <<>>

\* C10: the exit status is 0 exactly when the command ended without error, 2
\* exactly when it ended with an HTTP error, and 1 for every other error.
C10_ExitStatus ==
    pc = "done" =>
        /\ exit_code = 0 <=> error = ""
        /\ exit_code = 2 <=> error = "HTTPError"
        /\ exit_code = 1 <=> error \notin {"", "HTTPError"}

\* C11: for every BuildInfo made from a run record, whatever its status and
\* conclusion (missing, empty and null included), state_key is a non-empty
\* string: the status when the status is not "completed", and otherwise the
\* conclusion, or "unknown" when the conclusion is absent.
C11_StateKeyNonEmpty ==
    fout # <<>> =>
        LET b == fout[1]
            key == state_key(b)
        IN  /\ key \notin {None, ""}
            /\ b.status # "completed" => key = b.status
            /\ (b.status = "completed" /\ ~Falsy(b.conclusion)) => key = b.conclusion
            /\ (b.status = "completed" /\ Falsy(b.conclusion)) => key = "unknown"

\* C12: for every list of runs, success_streak is the length of the longest
\* prefix of the completed runs, newest first, whose conclusions are all
\* "success": it is at most the number of completed runs, and it is 0 when the
\* newest completed run did not succeed, whatever non-completed runs lie
\* between the completed ones.
C12_StreakIsSuccessPrefix ==
    fout # <<>> =>
        LET runs == FilterRuns(fin.runs, fin.workflow)
            completed == SelectSeq(runs, LAMBDA r : Get(r, "status", None) = "completed")
            Succeeded(i) == Get(completed[i], "conclusion", None) = "success"
            k == fout[1].success_streak
        IN  /\ k \in 0..Len(completed)
            /\ \A i \in 1..k : Succeeded(i)
            /\ k < Len(completed) => ~Succeeded(k + 1)
            /\ k <= fout[1].completed_recent_runs
            /\ (completed # <<>> /\ ~Succeeded(1)) => k = 0

\* C12 witness: two successes with a run that is not completed between them
\* give a streak of 2 out of three runs
C12_Witness ==
    /\ fout # <<>>
    /\ Len(fin.runs) = 3
    /\ fin.workflow = <<>>
    /\ Get(fin.runs[2], "status", None) # "completed"
    /\ Get(fin.runs[1], "conclusion", None) = "success"
    /\ Get(fin.runs[3], "conclusion", None) = "success"
    /\ fout[1].success_streak = 2
    /\ fout[1].completed_recent_runs = 2
    /\ fout[1].total_recent_runs = 3

\* C13: an intent run through the wrapper (build_args_from_intent, then main
\* with the flags it returns) sends the device the same colours, in the same
\* order, as run_nl_command given the same text; so a text with "last build"
\* or "build status" and with "set" and "light" sends the build colour on both
\* paths.  Stated for wrapper runs that called main and ended well: a run
\* that was handed to --command carries the intent unchanged, and a run on
\* flags has sent what run_nl_command sends for the same build and stats.
C13_WrapperMatchesRouter ==
    (caller = "wrapper" /\ pc = "done" /\ exit_code = 0) =>
        /\ rule # 0 => args.command = input
        /\ (rule = 0 /\ stats # <<>>)
               => sent = run_nl_command(input, build[1], stats[1])

====
